---- MODULE Spec2Model ----
(***************************************************************************)
(* A model of rename_animepahe_files.py: the string functions that clean   *)
(* a stem and pad its trailing number, the directory walk with its ignore  *)
(* tags, the planner build_rename_ops and the executor apply_rename_ops    *)
(* with its two-phase staging.                                             *)
(*                                                                         *)
(* A Python str is a sequence of one-character strings, a Path is a record *)
(* [dir, name] (dir: the directory's parts below the root, name: the file  *)
(* name's characters), the disk maps each existing file path to the        *)
(* content it holds (named after the path the content was created at).     *)
(***************************************************************************)
EXTENDS Integers, Sequences, FiniteSets, TLC

VARIABLES
    root,        \* parts of the root path handed to build_rename_ops
    tags,        \* ignore_dir_tags: a list of strings
    dry_run,     \* apply_rename_ops' dry_run argument
    disk,        \* the files on disk: Path -> content
    disk0,       \* the disk when the run started (history)
    platform,    \* "any" until a rename onto an existing file decides it
    pc,          \* where the run is
    pass,        \* 1: the run itself, 2: the second planning after execute
    stack,       \* os.walk's pending directories (top-down, depth first)
    yielded,     \* directories iter_video_files_by_directory has yielded
    widths,      \* the width build_rename_ops used per yielded directory
    ops,         \* the list of RenameOp being built or applied
    temp_ops,    \* apply_rename_ops' temp_ops
    final_ops,   \* apply_rename_ops' final_ops
    idx,         \* position of the running for loop in its list
    error,       \* the exception that left the run, or NoError
    outcomes,    \* the (operation, outcome) pairs handed back to the caller
    printed,     \* lines printed by the dry run
    text,        \* argument of the string function under test
    width,       \* width argument of replace_trailing_int_with_zfill
    result       \* what the string functions returned

vars == <<root, tags, dry_run, disk, disk0, platform, pc, pass, stack, yielded,
          widths, ops, temp_ops, final_ops, idx, error, outcomes, printed,
          text, width, result>>

(***************************************************************************)
(* Characters and character classes (ASCII).                               *)
(***************************************************************************)
Upper == <<"A","B","C","D","E","F","G","H","I","J","K","L","M",
           "N","O","P","Q","R","S","T","U","V","W","X","Y","Z">>

Lower == <<"a","b","c","d","e","f","g","h","i","j","k","l","m",
           "n","o","p","q","r","s","t","u","v","w","x","y","z">>

Digits == <<"0","1","2","3","4","5","6","7","8","9">>

\* \s of the re module, and what str.strip() strips
Whitespace == {" ", "\t", "\n", "\r", "\f"}

Range(f) == {f[x] : x \in DOMAIN f}

IsSpace(c) == c \in Whitespace

\* \d
IsDigit(c) == c \in Range(Digits)

\* \w
IsWord(c) == c \in Range(Upper) \cup Range(Lower) \cup Range(Digits) \cup {"_"}

\* str.lower() on one character
LowerChar(c) ==
    IF c \in Range(Upper) THEN Lower[CHOOSE k \in DOMAIN Upper : Upper[k] = c] ELSE c

LowerStr(s) == [k \in DOMAIN s |-> LowerChar(s[k])]

DigitValue(c) == (CHOOSE k \in DOMAIN Digits : Digits[k] = c) - 1

Take(s, n) == SubSeq(s, 1, n)

Drop(s, n) == SubSeq(s, n + 1, Len(s))

\* s[i:].startswith(t), i counted from 1
MatchesAt(s, i, t) == i + Len(t) - 1 <= Len(s) /\ SubSeq(s, i, i + Len(t) - 1) = t

StartsWith(s, t) == MatchesAt(s, 1, t)

\* t in s
Contains(s, t) == \E i \in 1..(Len(s) + 1) : MatchesAt(s, i, t)

RECURSIVE LStrip(_)
LStrip(s) == IF s # <<>> /\ IsSpace(Head(s)) THEN LStrip(Tail(s)) ELSE s

RECURSIVE RStrip(_)
RStrip(s) == IF s # <<>> /\ IsSpace(s[Len(s)]) THEN RStrip(Take(s, Len(s) - 1)) ELSE s

\* str.strip()
Strip(s) == RStrip(LStrip(s))

\* re.sub(r"\s+", " ", text): every maximal run of whitespace becomes one space
RECURSIVE CollapseSpaces(_)
CollapseSpaces(s) ==
    IF s = <<>> THEN <<>>
    ELSE IF IsSpace(Head(s)) THEN <<" ">> \o CollapseSpaces(LStrip(s))
    ELSE <<Head(s)>> \o CollapseSpaces(Tail(s))

normalize_spaces(t) == Strip(CollapseSpaces(t))

(***************************************************************************)
(* clean_animepahe_stem                                                    *)
(***************************************************************************)
ANIMEPAHE_PREFIX == <<"A","n","i","m","e","P","a","h","e">>

QUALITY_TOKENS ==
    << <<"B","D">>, <<"W","E","B">>, <<"D","V","D">>,
       <<"B","l","u","R","a","y">>, <<"H","D","R","i","p">>,
       <<"H","E","V","C">>, <<"x","2","6","4">>, <<"x","2","6","5">>,
       <<"1","0","b","i","t">>, <<"8","b","i","t">>,
       <<"1","0","8","0","p">>, <<"7","2","0","p">>, <<"4","8","0","p">>,
       <<"5","4","0","p">>, <<"3","6","0","p">> >>

\* the separators [_\s-] that follow the prefix
IsPrefixSeparator(c) == c \in {"_", "-"} \cup Whitespace

RECURSIVE DropSeparators(_)
DropSeparators(s) ==
    IF s # <<>> /\ IsPrefixSeparator(Head(s)) THEN DropSeparators(Tail(s)) ELSE s

\* re.sub(rf"^{prefix}[_\s-]*", "", stem)
RemovePrefix(stem) ==
    IF StartsWith(stem, ANIMEPAHE_PREFIX)
    THEN DropSeparators(Drop(stem, Len(ANIMEPAHE_PREFIX)))
    ELSE stem

\* cleaned.replace("_", " ")
ReplaceUnderscores(s) == [k \in DOMAIN s |-> IF s[k] = "_" THEN " " ELSE s[k]]

\* \b just before position i (1..Len(s)+1)
WordBoundary(s, i) ==
    LET before == i > 1 /\ IsWord(s[i - 1])
        after  == i <= Len(s) /\ IsWord(s[i])
    IN  before # after

\* the position after the whitespace run that starts at i
RECURSIVE SkipSpaces(_, _)
SkipSpaces(s, i) == IF i <= Len(s) /\ IsSpace(s[i]) THEN SkipSpaces(s, i + 1) ELSE i

\* a match of \bEng\s+Dub\b (IGNORECASE) that starts at i: the position after
\* it, or 0
EngDubEnd(s, i) ==
    LET j == SkipSpaces(s, i + 3)
    IN  IF /\ WordBoundary(s, i)
           /\ i + 2 <= Len(s)
           /\ LowerStr(SubSeq(s, i, i + 2)) = <<"e","n","g">>
           /\ j > i + 3
           /\ j + 2 <= Len(s)
           /\ LowerStr(SubSeq(s, j, j + 2)) = <<"d","u","b">>
           /\ WordBoundary(s, j + 3)
        THEN j + 3
        ELSE 0

\* re.sub(r"\bEng\s+Dub\b", "(Eng)", s, flags=re.IGNORECASE) from position i on
RECURSIVE SubEngDubFrom(_, _)
SubEngDubFrom(s, i) ==
    IF i > Len(s) THEN <<>>
    ELSE IF EngDubEnd(s, i) # 0
         THEN <<"(","E","n","g",")">> \o SubEngDubFrom(s, EngDubEnd(s, i))
         ELSE <<s[i]>> \o SubEngDubFrom(s, i + 1)

SubEngDub(s) == SubEngDubFrom(s, 1)

\* the lookahead (?=\s+(?:BD|WEB|...)\b), IGNORECASE, at position i
QualityAhead(s, i) ==
    LET j == SkipSpaces(s, i)
    IN  /\ j > i
        /\ \E q \in DOMAIN QUALITY_TOKENS :
              LET tok == QUALITY_TOKENS[q]
              IN  /\ j + Len(tok) - 1 <= Len(s)
                  /\ LowerStr(SubSeq(s, j, j + Len(tok) - 1)) = LowerStr(tok)
                  /\ WordBoundary(s, j + Len(tok))

\* The ends of the matches of (?P<prefix>.*?)(?P<ep>\d{1,4})(?=\s+(?:...)\b):
\* the lookahead needs whitespace right after ep, so ep ends where a digit run
\* ends, and one to four digits before that end always exist; finditer resumes
\* at the end of the previous match, which lies before the next such run.
EpisodeEnds(s) == {e \in 1..Len(s) : IsDigit(s[e]) /\ QualityAhead(s, e + 1)}

\* re.search(r"(\d+)(?!.*\d)", s).end(1): the position of the last digit
LastDigit(s) == {e \in 1..Len(s) : IsDigit(s[e]) /\ \A k \in (e + 1)..Len(s) : ~IsDigit(s[k])}

SetMax(S) == CHOOSE x \in S : \A y \in S : y <= x

clean_animepahe_stem(stem) ==
    LET c1 == RemovePrefix(stem)
        c2 == ReplaceUnderscores(c1)
        c3 == normalize_spaces(c2)
        c4 == SubEngDub(c3)
        cleaned == normalize_spaces(c4)
    IN  IF EpisodeEnds(cleaned) # {}
        THEN Strip(Take(cleaned, SetMax(EpisodeEnds(cleaned))))
        ELSE IF LastDigit(cleaned) # {}
             THEN Strip(Take(cleaned, SetMax(LastDigit(cleaned))))
             ELSE cleaned

(***************************************************************************)
(* extract_trailing_int, replace_trailing_int_with_zfill,                  *)
(* determine_episode_width                                                 *)
(***************************************************************************)
\* Optional[int]
None == [some |-> FALSE, val |-> 0]

Some(n) == [some |-> TRUE, val |-> n]

\* int(digits)
RECURSIVE ParseInt(_)
ParseInt(digits) ==
    IF digits = <<>> THEN 0
    ELSE 10 * ParseInt(Take(digits, Len(digits) - 1)) + DigitValue(digits[Len(digits)])

\* The match of (\d+)(\s*)$ found by re.search, as [start, stop]: group 1 is
\* s[start..stop], group 2 is the rest; start = 0 when there is no match.  The
\* search is leftmost, so group 1 is the whole digit run before the trailing
\* whitespace.
RECURSIVE RunStart(_, _)
RunStart(s, e) == IF e > 1 /\ IsDigit(s[e - 1]) THEN RunStart(s, e - 1) ELSE e

TrailingMatch(s) ==
    LET stop == Len(RStrip(s))
    IN  IF stop >= 1 /\ IsDigit(s[stop])
        THEN [start |-> RunStart(s, stop), stop |-> stop]
        ELSE [start |-> 0, stop |-> 0]

\* extract_trailing_int with a seeded fault: the whole last token must be numeric
ExtractWholeToken(t) ==
    LET m == TrailingMatch(t)
    IN  IF m.start = 0 \/ (m.start > 1 /\ ~IsSpace(t[m.start - 1])) THEN None
        ELSE Some(ParseInt(SubSeq(t, m.start, m.stop)))

extract_trailing_int(t) ==
    LET m == TrailingMatch(t)
    IN  IF m.start = 0 THEN None
        ELSE Some(ParseInt(SubSeq(t, m.start, m.stop)))

\* str.zfill on a string of digits
RECURSIVE zfill(_, _)
zfill(digits, w) == IF Len(digits) >= w THEN digits ELSE zfill(<<"0">> \o digits, w)

\* replace_trailing_int_with_zfill with a seeded fault: the number is
\* re-rendered from its value, so leading zeros beyond the width are dropped
RECURSIVE StripZeros(_)
StripZeros(digits) ==
    IF Len(digits) > 1 /\ Head(digits) = "0" THEN StripZeros(Tail(digits)) ELSE digits

ReplaceRerendered(t, w) ==
    LET m == TrailingMatch(t)
    IN  IF m.start = 0 THEN t
        ELSE Take(t, m.start - 1) \o zfill(StripZeros(SubSeq(t, m.start, m.stop)), w)
                 \o Drop(t, m.stop)

replace_trailing_int_with_zfill(t, w) ==
    LET m == TrailingMatch(t)
    IN  IF m.start = 0 THEN t
        ELSE LET digits == SubSeq(t, m.start, m.stop)
                 trailing_ws == Drop(t, m.stop)
                 padded == IF Len(digits) >= w THEN digits ELSE zfill(digits, w)
             IN  Take(t, m.start - 1) \o padded \o trailing_ws

\* len(str(n)) for n >= 0
RECURSIVE StrLen(_)
StrLen(n) == IF n < 10 THEN 1 ELSE 1 + StrLen(n \div 10)

MinWidth == 2

IntMax(a, b) == IF a >= b THEN a ELSE b

\* determine_episode_width with a seeded fault: the minimum of 2 is forgotten
WidthOfMaxOnly(nums) ==
    IF nums = <<>> THEN MinWidth ELSE StrLen(SetMax(Range(nums)))

determine_episode_width(nums) ==
    IF nums = <<>> THEN MinWidth
    ELSE IntMax(MinWidth, StrLen(SetMax(Range(nums))))


(***************************************************************************)
(* Paths (pathlib) and the files on disk                                   *)
(***************************************************************************)
MakePath(dir, name) == [dir |-> dir, name |-> name]

\* name.rfind("."), counted from 1; 0 when there is no dot
LastDot(name) ==
    IF \E k \in DOMAIN name : name[k] = "."
    THEN SetMax({k \in DOMAIN name : name[k] = "."})
    ELSE 0

\* PurePath.suffix: from the last dot on, unless the dot starts or ends the name
PathSuffix(name) ==
    IF 1 < LastDot(name) /\ LastDot(name) < Len(name)
    THEN Drop(name, LastDot(name) - 1)
    ELSE <<>>

\* PurePath.stem
PathStem(name) ==
    IF 1 < LastDot(name) /\ LastDot(name) < Len(name)
    THEN Take(name, LastDot(name) - 1)
    ELSE name

\* PurePath.with_name
with_name(path, name) == [path EXCEPT !.name = name]

VIDEO_EXTENSIONS ==
    { <<".","a","v","i">>, <<".","m","4","v">>, <<".","m","k","v">>,
      <<".","m","o","v">>, <<".","m","p","4">>, <<".","t","s">>,
      <<".","w","e","b","m">>, <<".","w","m","v">> }

\* Path.exists()
Exists(d, path) == path \in DOMAIN d

\* the disk d after its file at src has moved to dst (dst is replaced)
Moved(d, src, dst) ==
    [p \in (DOMAIN d \ {src}) \cup {dst} |-> IF p = dst THEN d[src] ELSE d[p]]

NoError == [kind |-> "none", at |-> "none"]

\* Path.rename(src, dst) on platform plat ("posix" | "nt"): the disk afterwards
\* and the exception raised ("none": no exception).  os.rename replaces an
\* existing destination file on POSIX and raises FileExistsError on Windows.
Rename(d, plat, src, dst) ==
    IF ~Exists(d, src) THEN [disk |-> d, raised |-> "FileNotFoundError"]
    ELSE IF src = dst THEN [disk |-> d, raised |-> "none"]
    ELSE IF Exists(d, dst) /\ plat = "nt" THEN [disk |-> d, raised |-> "FileExistsError"]
    ELSE [disk |-> Moved(d, src, dst), raised |-> "none"]

\* the platforms a run can still be on once it renames src to dst
Platforms(d, plat, src, dst) ==
    IF plat = "any" /\ Exists(d, src) /\ Exists(d, dst) /\ src # dst
    THEN {"posix", "nt"}
    ELSE {plat}

\* the enumerations of a finite set (os.scandir lists in no particular order)
RECURSIVE Perms(_)
Perms(S) ==
    IF S = {} THEN {<<>>}
    ELSE UNION {{<<x>> \o p : p \in Perms(S \ {x})} : x \in S}

(***************************************************************************)
(* should_ignore_directory, iter_video_files_by_directory                  *)
(***************************************************************************)
\* `tag in part` with a seeded fault: equality instead of substring
TagEquals(tag, part) == tag = part

\* tag in part (substring)
TagIn(tag, part) == Contains(part, tag)

should_ignore_directory(parts, ignore_dir_tags) ==
    IF ignore_dir_tags = <<>> THEN FALSE
    ELSE \E p \in DOMAIN parts :
            \E t \in DOMAIN ignore_dir_tags : TagIn(ignore_dir_tags[t], parts[p])

\* the directories of the tree, as their parts below the root
DirK == <<"k">>

DirASB == <<"a","s","b">>

RelDirs == { <<>>, <<DirK>>, <<DirASB>>, <<DirASB, DirK>> }

\* os.walk's dirnames for a directory
DirNames(directory) ==
    {e[Len(e)] : e \in {e \in RelDirs : Len(e) = Len(directory) + 1
                                          /\ Take(e, Len(directory)) = directory}}

\* dirnames[:] = [d for d in dirnames if not any(tag in d for tag in tags)]
PrunedDirNames(dirnames, ignore_dir_tags) ==
    IF ignore_dir_tags # <<>>
    THEN {n \in dirnames : ~\E t \in DOMAIN ignore_dir_tags : TagIn(ignore_dir_tags[t], n)}
    ELSE dirnames

\* the files list of one directory: not hidden, with a video extension
VideoFiles(d, directory) ==
    {p \in DOMAIN d : /\ p.dir = directory
                      /\ ~StartsWith(p.name, <<".">>)
                      /\ LowerStr(PathSuffix(p.name)) \in VIDEO_EXTENSIONS}

(***************************************************************************)
(* build_rename_ops                                                        *)
(***************************************************************************)
\* the stem the planner works on: cleaned when it starts with the prefix
CandidateStem(path) ==
    IF StartsWith(PathStem(path.name), ANIMEPAHE_PREFIX)
    THEN clean_animepahe_stem(PathStem(path.name))
    ELSE PathStem(path.name)

\* planned: (path, stem, ep_num) for every file of the group
Planned(files) ==
    [k \in DOMAIN files |->
        [path |-> files[k], stem |-> CandidateStem(files[k]),
         ep |-> extract_trailing_int(CandidateStem(files[k]))]]

\* ep for _, _, ep in planned if ep is not None
RECURSIVE EpisodeNumbers(_)
EpisodeNumbers(planned) ==
    IF planned = <<>> THEN <<>>
    ELSE (IF Head(planned).ep.some THEN <<Head(planned).ep.val>> ELSE <<>>)
             \o EpisodeNumbers(Tail(planned))

GroupWidth(files) == determine_episode_width(EpisodeNumbers(Planned(files)))

\* dst of one planned file at the group's width
Destination(entry, w) ==
    LET new_stem == IF entry.ep.some
                    THEN replace_trailing_int_with_zfill(entry.stem, w)
                    ELSE entry.stem
    IN  with_name(entry.path, new_stem \o PathSuffix(entry.path.name))

\* the operations the second loop appends for planned[k..]
RECURSIVE GroupOpsFrom(_, _, _)
GroupOpsFrom(planned, w, k) ==
    IF k > Len(planned) THEN <<>>
    ELSE (IF Destination(planned[k], w) # planned[k].path
          THEN <<[src |-> planned[k].path, dst |-> Destination(planned[k], w)]>>
          ELSE <<>>) \o GroupOpsFrom(planned, w, k + 1)

GroupOps(files) == GroupOpsFrom(Planned(files), GroupWidth(files), 1)

\* seen[dst] after the loop has handled ops[1..k]
RECURSIVE Seen(_, _)
Seen(operations, k) ==
    IF k = 0 THEN <<>>
    ELSE LET before == Seen(operations, k - 1)
             op == operations[k]
         IN  SelectSeq(before, LAMBDA e : e.dst # op.dst) \o <<op>>

\* the collision check with a seeded fault: it never raises
NoCollisionFound(operations) == 0

\* _validate_no_destination_collisions: the position of the operation it
\* raises at, 0 when it returns
validate_no_destination_collisions(operations) ==
    LET bad == {k \in DOMAIN operations :
                   \E e \in Range(Seen(operations, k - 1)) :
                       e.dst = operations[k].dst /\ e.src # operations[k].src}
    IN  IF bad = {} THEN 0 ELSE CHOOSE k \in bad : \A j \in bad : k <= j

(***************************************************************************)
(* apply_rename_ops                                                        *)
(***************************************************************************)
\* src_set = {op.src for op in ops}
SrcSet(operations) == {operations[k].src : k \in DOMAIN operations}

\* the pre-flight check with a seeded fault: only the first operation is tested
FirstDestinationConflict(operations, d) ==
    {k \in DOMAIN operations :
        /\ k = 1
        /\ Exists(d, operations[k].dst)
        /\ operations[k].dst \notin SrcSet(operations)}

\* the operations the pre-flight loop raises FileExistsError for
DestinationConflicts(operations, d) ==
    {k \in DOMAIN operations :
        /\ Exists(d, operations[k].dst)
        /\ operations[k].dst \notin SrcSet(operations)}

\* the staging test with a seeded fault: nothing is staged
NeverStaged(op, src_set) == FALSE

\* if op.dst in src_set
NeedsStaging(op, src_set) == op.dst \in src_set

\* op.src.with_name(f"{op.src.name}.tmp-rename-{uuid.uuid4().hex}"): the k-th
\* call of uuid4 returns a value no other call returns and no file name holds
TempPath(op, k) == with_name(op.src, op.src.name \o <<".tmp-rename-", ToString(k)>>)

RECURSIVE TempOpsFrom(_, _)
TempOpsFrom(operations, k) ==
    IF k > Len(operations) THEN <<>>
    ELSE (IF NeedsStaging(operations[k], SrcSet(operations))
          THEN <<[src |-> operations[k].src, dst |-> TempPath(operations[k], k)]>>
          ELSE <<>>) \o TempOpsFrom(operations, k + 1)

TempOps(operations) == TempOpsFrom(operations, 1)

FinalOps(operations) ==
    [k \in DOMAIN operations |->
        IF NeedsStaging(operations[k], SrcSet(operations))
        THEN [src |-> TempPath(operations[k], k), dst |-> operations[k].dst]
        ELSE [src |-> operations[k].src, dst |-> operations[k].dst]]

\* format_rename_op for every operation
DryRunLines(operations) ==
    [k \in DOMAIN operations |-> <<"DRY-RUN: ", operations[k].src, " -> ", operations[k].dst>>]

(***************************************************************************)
(* The inputs                                                              *)
(***************************************************************************)
MaxFiles == 3

MaxOps == 3

MaxLen == 4

MaxWidth == 3

Mp4 == <<".","m","p","4">>

\* "S 1.mp4", "S 10.mp4", "S 01.mp4"
FileS1 == <<"S"," ","1">> \o Mp4

FileS10 == <<"S"," ","1","0">> \o Mp4

FileS01 == <<"S"," ","0","1">> \o Mp4

\* "AnimePahe_S_1_BD.mp4"
FileApS1 == ANIMEPAHE_PREFIX \o <<"_","S","_","1","_","B","D">> \o Mp4

\* "AnimePaheAnimePahe_10.mp4"
FileApAp10 == ANIMEPAHE_PREFIX \o ANIMEPAHE_PREFIX \o <<"_","1","0">> \o Mp4

\* "AnimePahe 10.mp4"
FileAp10 == ANIMEPAHE_PREFIX \o <<" ","1","0">> \o Mp4

\* "S 100.MKV"
FileS100 == <<"S"," ","1","0","0",".","M","K","V">>

\* "n 1000.txt": no video
FileTxt == <<"n"," ","1","0","0","0",".","t","x","t">>

\* ".h 1000.mp4": hidden
FileHidden == <<".","h"," ","1","0","0","0">> \o Mp4

FileNames ==
    {FileS1, FileS10, FileS01, FileApS1, FileApAp10, FileAp10, FileS100, FileTxt,
     FileHidden}

\* the file names a directory of the tree may hold
NamesIn(directory) ==
    IF directory = <<DirK>> THEN FileNames
    ELSE IF directory = <<DirASB>> THEN {FileS1, FileS10, FileS100}
    ELSE {FileS1}

FileSlots == UNION {{MakePath(d, n) : n \in NamesIn(d)} : d \in RelDirs}

\* the subsets of S with at most n elements
RECURSIVE SubsetsUpTo(_, _)
SubsetsUpTo(S, n) ==
    IF n = 0 THEN {{}}
    ELSE LET smaller == SubsetsUpTo(S, n - 1)
         IN  smaller \cup {T \cup {x} : T \in smaller, x \in S}

\* "/v" and "/us/v"
RootChoices == { << <<"/">>, <<"v">> >>, << <<"/">>, <<"u","s">>, <<"v">> >> }

TagChoices == { <<>>, << <<"z">>, <<"s">> >> }

NoResult == [fn |-> "none", opt |-> None, str |-> <<>>]

\* everything but the disk and the arguments, as a run starts
Fresh ==
    /\ disk0 = disk
    /\ platform = "any"
    /\ pass = 1
    /\ yielded = {}
    /\ widths = [d \in RelDirs |-> 0]
    /\ temp_ops = <<>>
    /\ final_ops = <<>>
    /\ idx = 0
    /\ error = NoError
    /\ outcomes = <<>>
    /\ printed = <<>>
    /\ text = <<>>
    /\ width = 0
    /\ result = NoResult

\* rename_files_recursively is called on a tree
Init ==
    /\ root \in RootChoices
    /\ tags \in TagChoices
    /\ dry_run \in BOOLEAN
    /\ \E files \in SubsetsUpTo(FileSlots, MaxFiles) : disk = [p \in files |-> p]
    /\ pc = "build"
    /\ stack = << <<>> >>
    /\ ops = <<>>
    /\ Fresh

(***************************************************************************)
(* The steps                                                               *)
(***************************************************************************)
\* One round of the loop over os.walk in iter_video_files_by_directory and,
\* when it yields, the body of build_rename_ops' loop for the yielded group.
ScanDirectory ==
    /\ pc = "build"
    /\ stack # <<>>
    /\ LET directory == Head(stack)
           kept == PrunedDirNames(DirNames(directory), tags)
       IN  /\ \E order \in Perms(kept) :
                 stack' = [k \in DOMAIN order |-> Append(directory, order[k])] \o Tail(stack)
           /\ IF \/ should_ignore_directory(root \o directory, tags)
                 \/ VideoFiles(disk, directory) = {}
              THEN UNCHANGED <<yielded, widths, ops>>
              ELSE \E files \in Perms(VideoFiles(disk, directory)) :
                      /\ yielded' = yielded \cup {directory}
                      /\ widths' = [widths EXCEPT ![directory] = GroupWidth(files)]
                      /\ ops' = ops \o GroupOps(files)
    /\ UNCHANGED <<root, tags, dry_run, disk, disk0, platform, pc, pass, temp_ops,
                   final_ops, idx, error, outcomes, printed, text, width, result>>

\* the end of build_rename_ops: the collision check, then return ops
ReturnOps ==
    /\ pc = "build"
    /\ stack = <<>>
    /\ IF validate_no_destination_collisions(ops) # 0
       THEN /\ pc' = "raised"
            /\ error' = [kind |-> "RuntimeError", at |-> "build"]
       ELSE /\ pc' = IF pass = 1 THEN "apply" ELSE "replanned"
            /\ error' = error
    /\ UNCHANGED <<root, tags, dry_run, disk, disk0, platform, pass, stack, yielded,
                   widths, ops, temp_ops, final_ops, idx, outcomes, printed, text,
                   width, result>>

\* apply_rename_ops up to its rename loops: the dry run, or the pre-flight
\* check and the partition into temp_ops and final_ops
Apply ==
    /\ pc = "apply"
    /\ IF dry_run
       THEN /\ printed' = DryRunLines(ops)
            /\ pc' = "done"
            /\ UNCHANGED <<temp_ops, final_ops, idx, error>>
       ELSE IF DestinationConflicts(ops, disk) # {}
       THEN /\ pc' = "raised"
            /\ error' = [kind |-> "FileExistsError", at |-> "preflight"]
            /\ UNCHANGED <<temp_ops, final_ops, idx, printed>>
       ELSE /\ temp_ops' = TempOps(ops)
            /\ final_ops' = FinalOps(ops)
            /\ idx' = 1
            /\ pc' = IF TempOps(ops) # <<>> THEN "staging"
                     ELSE IF FinalOps(ops) # <<>> THEN "final" ELSE "done"
            /\ UNCHANGED <<error, printed>>
    /\ UNCHANGED <<root, tags, dry_run, disk, disk0, platform, pass, stack, yielded,
                   widths, ops, outcomes, text, width, result>>

\* one round of `for src, tmp in temp_ops: src.rename(tmp)`
StageStep ==
    /\ pc = "staging"
    /\ \E plat \in Platforms(disk, platform, temp_ops[idx].src, temp_ops[idx].dst) :
          LET r == Rename(disk, plat, temp_ops[idx].src, temp_ops[idx].dst)
          IN  /\ platform' = plat
              /\ disk' = r.disk
              /\ IF r.raised # "none"
                 THEN /\ pc' = "raised"
                      /\ error' = [kind |-> r.raised, at |-> "staging"]
                      /\ idx' = idx
                 ELSE /\ pc' = IF idx = Len(temp_ops) THEN "final" ELSE "staging"
                      /\ idx' = IF idx = Len(temp_ops) THEN 1 ELSE idx + 1
                      /\ error' = error
    /\ UNCHANGED <<root, tags, dry_run, disk0, pass, stack, yielded, widths, ops,
                   temp_ops, final_ops, outcomes, printed, text, width, result>>

\* one round of `for src, dst in final_ops: src.rename(dst)`
FinalStep ==
    /\ pc = "final"
    /\ \E plat \in Platforms(disk, platform, final_ops[idx].src, final_ops[idx].dst) :
          LET r == Rename(disk, plat, final_ops[idx].src, final_ops[idx].dst)
          IN  /\ platform' = plat
              /\ disk' = r.disk
              /\ IF r.raised # "none"
                 THEN /\ pc' = "raised"
                      /\ error' = [kind |-> r.raised, at |-> "final"]
                      /\ idx' = idx
                 ELSE /\ pc' = IF idx = Len(final_ops) THEN "done" ELSE "final"
                      /\ idx' = IF idx = Len(final_ops) THEN idx ELSE idx + 1
                      /\ error' = error
    /\ UNCHANGED <<root, tags, dry_run, disk0, pass, stack, yielded, widths, ops,
                   temp_ops, final_ops, outcomes, printed, text, width, result>>

\* build_rename_ops is called again on the tree an execute run has left
Replan ==
    /\ pc = "done"
    /\ pass = 1
    /\ ~dry_run
    /\ pass' = 2
    /\ pc' = "build"
    /\ stack' = << <<>> >>
    /\ ops' = <<>>
    /\ yielded' = {}
    /\ widths' = [d \in RelDirs |-> 0]
    /\ UNCHANGED <<root, tags, dry_run, disk, disk0, platform, temp_ops, final_ops,
                   idx, error, outcomes, printed, text, width, result>>

Next == ScanDirectory \/ ReturnOps \/ Apply \/ StageStep \/ FinalStep \/ Replan

Spec == Init /\ [][Next]_vars


(***************************************************************************)
(* apply_rename_ops on its own: every batch build_rename_ops can return    *)
(* (sources that exist and differ, no operation onto its own source, no    *)
(* destination shared) over the files a, b, c, d of one directory.         *)
(***************************************************************************)
ApplyPaths == {MakePath(<<>>, <<c>>) : c \in {"a", "b", "c", "d"}}

RECURSIVE Batches(_, _)
Batches(present, n) ==
    IF n = 0 THEN {<<>>}
    ELSE LET shorter == Batches(present, n - 1)
         IN  shorter \cup
             {Append(b, [src |-> s, dst |-> t]) :
                 b \in {b \in shorter : Len(b) = n - 1},
                 s \in present, t \in ApplyPaths}

IsPlannerBatch(b) ==
    /\ \A k \in DOMAIN b : b[k].src # b[k].dst
    /\ \A j, k \in DOMAIN b : j # k => b[j].src # b[k].src
    /\ validate_no_destination_collisions(b) = 0

ApplyInit ==
    /\ root = << <<"/">>, <<"v">> >>
    /\ tags = <<>>
    /\ dry_run \in BOOLEAN
    /\ \E present \in SUBSET ApplyPaths :
          /\ disk = [p \in present |-> p]
          /\ ops \in {b \in Batches(present, MaxOps) : IsPlannerBatch(b)}
    /\ pc = "apply"
    /\ stack = <<>>
    /\ Fresh

ApplyNext == Apply \/ StageStep \/ FinalStep

ApplySpec == ApplyInit /\ [][ApplyNext]_vars

\* the interpreter runs the loops on: a step that can be taken is taken
ApplyFairSpec == ApplySpec /\ WF_vars(ApplyNext)

(***************************************************************************)
(* The string functions on their own                                       *)
(***************************************************************************)
PureAlphabet == {"a", " ", "0", "1", "7"}

RECURSIVE StringsUpTo(_)
StringsUpTo(n) ==
    IF n = 0 THEN {<<>>}
    ELSE LET shorter == StringsUpTo(n - 1)
         IN  shorter \cup {Append(t, c) : t \in {t \in shorter : Len(t) = n - 1},
                                          c \in PureAlphabet}

PureInit ==
    /\ text \in StringsUpTo(MaxLen)
    /\ width \in 0..MaxWidth
    /\ result = NoResult
    /\ pc = "pure"
    /\ root = <<>>
    /\ tags = <<>>
    /\ dry_run = TRUE
    /\ disk = <<>>
    /\ disk0 = <<>>
    /\ platform = "any"
    /\ pass = 1
    /\ stack = <<>>
    /\ yielded = {}
    /\ widths = [d \in RelDirs |-> 0]
    /\ ops = <<>>
    /\ temp_ops = <<>>
    /\ final_ops = <<>>
    /\ idx = 0
    /\ error = NoError
    /\ outcomes = <<>>
    /\ printed = <<>>

CallExtract ==
    /\ pc = "pure"
    /\ result' = [fn |-> "extract_trailing_int", opt |-> extract_trailing_int(text),
                  str |-> <<>>]
    /\ UNCHANGED <<root, tags, dry_run, disk, disk0, platform, pc, pass, stack, yielded,
                   widths, ops, temp_ops, final_ops, idx, error, outcomes, printed,
                   text, width>>

CallReplace ==
    /\ pc = "pure"
    /\ result' = [fn |-> "replace_trailing_int_with_zfill", opt |-> None,
                  str |-> replace_trailing_int_with_zfill(text, width)]
    /\ UNCHANGED <<root, tags, dry_run, disk, disk0, platform, pc, pass, stack, yielded,
                   widths, ops, temp_ops, final_ops, idx, error, outcomes, printed,
                   text, width>>

PureNext == CallExtract \/ CallReplace

PureSpec == PureInit /\ [][PureNext]_vars


(***************************************************************************)
(* The claims                                                              *)
(***************************************************************************)
\* the execute run is inside one of its two rename loops
Renaming == pc \in {"staging", "final"}

\* the rename the running loop performs next
NextRename == IF pc = "staging" THEN temp_ops[idx] ELSE final_ops[idx]

\* C1: in execute mode, for a batch that passed the collision check and the
\* pre-flight check, no rename step (staging or final) targets a path that
\* holds a file at that moment, whatever the order of the operations.
C1_NoRenameOntoAFile ==
    (~dry_run /\ Renaming) => ~Exists(disk, NextRename.dst)

\* the destinations of the batch are a permutation of its sources
IsPermutationBatch ==
    /\ ~dry_run
    /\ ops # <<>>
    /\ {ops[k].dst : k \in DOMAIN ops} = SrcSet(ops)

\* every content is at its planned destination, nothing else has changed
AllAtDestination ==
    /\ DOMAIN disk = DOMAIN disk0
    /\ \A k \in DOMAIN ops : disk[ops[k].dst] = disk0[ops[k].src]
    /\ \A q \in DOMAIN disk0 : q \notin SrcSet(ops) => disk[q] = disk0[q]

\* C2: for a batch whose destinations are a permutation of its sources (a swap,
\* a longer cycle), the execute run ends without an error, and then every
\* content is at its planned destination, none is lost and no staging name is
\* left on disk.
C2_SwapSafety ==
    /\ [](IsPermutationBatch => (pc # "raised" /\ (pc = "done" => AllAtDestination)))
    /\ [](IsPermutationBatch => <>(pc = "done"))

C2_Witness ==
    /\ IsPermutationBatch
    /\ pc = "done"
    /\ Len(ops) >= 2
    /\ disk # disk0

\* the batch names a destination that was on disk and is no source of the batch
ConflictAtStart ==
    \E k \in DOMAIN ops :
        /\ ops[k].dst \in DOMAIN disk0
        /\ \A j \in DOMAIN ops : ops[j].src # ops[k].dst

\* C3: in execute mode, when some operation's destination exists on disk and
\* is no source of the batch, apply_rename_ops raises the destination error
\* before any rename: the disk is as it was, wherever the operation stands.
C3_PreflightNoMutation ==
    (~dry_run /\ pc # "apply" /\ ConflictAtStart) =>
        /\ pc = "raised"
        /\ error = [kind |-> "FileExistsError", at |-> "preflight"]
        /\ disk = disk0

C3_Witness ==
    /\ pc = "raised"
    /\ error.at = "preflight"
    /\ Len(ops) >= 2
    /\ ~Exists(disk0, ops[1].dst) \/ ops[1].dst \in SrcSet(ops)

\* the files of the directories the first walk yielded
ScannedFiles == UNION {VideoFiles(disk0, d) : d \in yielded}

\* the path a file's stem normalizes to: cleaned, padded to its directory's
\* width, with the original extension
NormalizedPath(p) ==
    with_name(p, replace_trailing_int_with_zfill(CandidateStem(p), widths[p.dir])
                     \o PathSuffix(p.name))

\* the first build_rename_ops has ended
Planned1 == pass = 1 /\ pc # "build"

CollisionRaised ==
    /\ pc = "raised"
    /\ error = [kind |-> "RuntimeError", at |-> "build"]
    /\ disk = disk0

C5_SecondPlanIsEmpty == pc = "replanned" => ops = <<>>

\* C6: when a rename fails in the middle of the execute run, the caller gets,
\* for every operation of the batch, whether it succeeded: a list of
\* (operation, outcome) pairs.
C6_FailureIsReported ==
    (pc = "raised" /\ error.at \in {"staging", "final"}) =>
        /\ Len(outcomes) = Len(ops)
        /\ \A k \in DOMAIN ops : outcomes[k][1] = ops[k] /\ outcomes[k][2] \in BOOLEAN

\* the plan in ops was made from the disk as it is
PlanIsCurrent ==
    \/ pc \in {"build", "apply", "replanned"}
    \/ pc = "raised" /\ error.at \in {"build", "preflight"}
    \/ pc = "done" /\ dry_run

WalkDone == PlanIsCurrent /\ stack = <<>>

HasTag(name) == \E t \in DOMAIN tags : Contains(name, tags[t])

\* a directory below the root whose name, or the name of a directory between
\* it and the root, contains a tag
InTaggedSubtree(d) == \E k \in DOMAIN d : HasTag(d[k])

NoOpFrom(d) == \A k \in DOMAIN ops : ops[k].src.dir # d

Skipped(d) == d \notin yielded /\ NoOpFrom(d)

\* C7 as stated: a directory under the root whose name contains a tag is not
\* yielded, nor is any directory of its subtree, and none of their files is a
\* source; a directory under the root whose name and whose ancestors' names
\* up to the root (the root's own name included) contain no tag is still
\* scanned: it is yielded when it holds a video file.
C7_OnlyTaggedSubtreesAreSkipped ==
    PlanIsCurrent =>
        \A d \in RelDirs :
            /\ InTaggedSubtree(d) => Skipped(d)
            /\ (WalkDone /\ Len(d) > 0 /\ ~InTaggedSubtree(d) /\ ~HasTag(root[Len(root)])
                  /\ VideoFiles(disk, d) # {}) => d \in yielded

\* C7 amended: as C7, but a directory is still scanned only if no component of
\* its whole path, the components of the root path included, contains a tag.
C7_TaggedPathsAreSkipped ==
    PlanIsCurrent =>
        \A d \in RelDirs :
            /\ InTaggedSubtree(d) => Skipped(d)
            /\ (WalkDone /\ (\A k \in DOMAIN (root \o d) : ~HasTag((root \o d)[k]))
                  /\ VideoFiles(disk, d) # {}) => d \in yielded

C7_Witness ==
    /\ WalkDone
    /\ tags # <<>>
    /\ \E d \in RelDirs : InTaggedSubtree(d) /\ VideoFiles(disk, d) # {} /\ Skipped(d)
    /\ \E d \in RelDirs : Len(d) > 0 /\ d \in yielded /\ ~NoOpFrom(d)

\* the trailing numbers of the candidate stems of a directory's files
EpisodesOf(d) ==
    {extract_trailing_int(CandidateStem(p)).val :
        p \in {p \in VideoFiles(disk, d) : extract_trailing_int(CandidateStem(p)).some}}

RECURSIVE Pow10(_)
Pow10(n) == IF n = 0 THEN 1 ELSE 10 * Pow10(n - 1)

\* w = max(2, number of decimal digits of the largest number of S)
IsWidthOf(w, S) ==
    /\ w >= 2
    /\ \A n \in S : n < Pow10(w)
    /\ w > 2 => \E n \in S : n >= Pow10(w - 1)

\* the number of digits a stem ends in (before trailing whitespace)
TrailingDigits(stem) ==
    IF TrailingMatch(stem).start = 0 THEN 0
    ELSE TrailingMatch(stem).stop - TrailingMatch(stem).start + 1

\* C9 as stated: the width of a directory group is max(2, digits of the
\* largest trailing number of that directory's candidate stems), 2 when there
\* is none, and a file whose trailing number has that many digits already
\* produces no operation.
C9_WidthAndNoOperation ==
    PlanIsCurrent =>
        \A d \in yielded :
            /\ IsWidthOf(widths[d], EpisodesOf(d))
            /\ \A p \in VideoFiles(disk, d) :
                  TrailingDigits(CandidateStem(p)) >= widths[d]
                      => \A k \in DOMAIN ops : ops[k].src # p

\* C9 amended: the same width, and a file whose name does not start with the
\* AnimePahe prefix and whose trailing number has at least that many digits
\* produces no operation.
C9_WidthAndNoPaddingOperation ==
    PlanIsCurrent =>
        \A d \in yielded :
            /\ IsWidthOf(widths[d], EpisodesOf(d))
            /\ \A p \in VideoFiles(disk, d) :
                  (/\ TrailingDigits(PathStem(p.name)) >= widths[d]
                   /\ ~StartsWith(PathStem(p.name), ANIMEPAHE_PREFIX))
                      => \A k \in DOMAIN ops : ops[k].src # p

C9_Witness ==
    /\ PlanIsCurrent
    /\ \E d, e \in yielded :
          /\ widths[d] = 2
          /\ widths[e] = 3
          /\ MakePath(d, FileS1) \in DOMAIN disk
          /\ MakePath(d, FileS10) \in DOMAIN disk
          /\ \E k \in DOMAIN ops : ops[k] = [src |-> MakePath(d, FileS1), dst |-> MakePath(d, FileS01)]
          /\ \A k \in DOMAIN ops : ops[k].src # MakePath(d, FileS10)

\* the text ends in a digit, trailing whitespace aside
EndsInDigits(t) ==
    \E e \in DOMAIN t : IsDigit(t[e]) /\ \A j \in (e + 1)..Len(t) : IsSpace(t[j])

\* the position of the last character that is no whitespace
LastInk(t) == SetMax({e \in DOMAIN t : ~IsSpace(t[e])})

\* the first position of the digit run that ends at e
FirstOfRun(t, e) ==
    CHOOSE b \in 1..e :
        /\ \A j \in b..e : IsDigit(t[j])
        /\ b > 1 => ~IsDigit(t[b - 1])

\* C8: the text comes back unchanged when it does not end in a digit run
\* (trailing whitespace aside); otherwise the trailing run is left-extended
\* with zeros to at least width digits, a run of width digits or more stays,
\* and all before the run and the trailing whitespace is kept.
C8_PadsOnlyTheTrailingRun ==
    result.fn = "replace_trailing_int_with_zfill" =>
        IF ~EndsInDigits(text) THEN result.str = text
        ELSE LET e == LastInk(text)
                 b == FirstOfRun(text, e)
                 z == IntMax(0, width - (e - b + 1))
             IN  /\ Len(result.str) = Len(text) + z
                 /\ \A j \in 1..(b - 1) : result.str[j] = text[j]
                 /\ \A j \in b..(b + z - 1) : result.str[j] = "0"
                 /\ \A j \in b..Len(text) : result.str[j + z] = text[j]

C8_Witness ==
    /\ result.fn = "replace_trailing_int_with_zfill"
    /\ EndsInDigits(text)
    /\ result.str # text
    /\ FirstOfRun(text, LastInk(text)) > 2
    /\ IsDigit(text[1])

\* the last token of the text: its maximal run of non-whitespace characters
LastTokenStart(t) ==
    CHOOSE b \in 1..LastInk(t) :
        /\ \A j \in b..LastInk(t) : ~IsSpace(t[j])
        /\ b > 1 => IsSpace(t[b - 1])

HasToken(t) == \E e \in DOMAIN t : ~IsSpace(t[e])

\* the decimal value of the digits t[b..e]
RECURSIVE DecimalValue(_, _, _)
DecimalValue(t, b, e) ==
    IF b > e THEN 0 ELSE DigitValue(t[b]) * Pow10(e - b) + DecimalValue(t, b + 1, e)

\* C10 as stated: extract_trailing_int returns an integer only if the last
\* token of the text consists of digits only, and then the token's value; it
\* returns nothing when the last token is not entirely numeric.
C10_LastTokenIsNumeric ==
    result.fn = "extract_trailing_int" =>
        LET numeric == /\ HasToken(text)
                       /\ \A j \in LastTokenStart(text)..LastInk(text) : IsDigit(text[j])
        IN  /\ result.opt.some <=> numeric
            /\ result.opt.some =>
                  result.opt.val = DecimalValue(text, LastTokenStart(text), LastInk(text))

\* C10 amended: extract_trailing_int returns an integer exactly when the text,
\* trailing whitespace aside, ends in a digit, and then the value of the
\* maximal run of digits that ends there, also when other characters of the
\* same token precede the run.
C10_TrailingDigitRun ==
    result.fn = "extract_trailing_int" =>
        /\ result.opt.some <=> EndsInDigits(text)
        /\ result.opt.some =>
              result.opt.val =
                  DecimalValue(text, FirstOfRun(text, LastInk(text)), LastInk(text))

C10_Witness ==
    /\ result.fn = "extract_trailing_int"
    /\ result.opt.some
    /\ result.opt.val > 0
    /\ LastTokenStart(text) < FirstOfRun(text, LastInk(text))

====
